---- MODULE Spec2Model ----
(***************************************************************************)
(* Model of looptrace-loci-vis: the napari reader for locus-specific       *)
(* points (file-set classification, table parsing, z-expansion, layer      *)
(* building).                                                              *)
(*                                                                         *)
(* Numbers.  A Python float is modelled as a fixed-point number: the       *)
(* integer v stands for the value v / Scale.  A Python int i that is used  *)
(* as a coordinate (the floored z, a slice index) is the fixed-point       *)
(* number i * Scale, since Python compares int 5 and float 5.0 as equal.   *)
(***************************************************************************)
EXTENDS Integers, Sequences, FiniteSets, TLC

VARIABLES
    mode,       \* which entry point of the package this behaviour exercises
    pc,         \* position of the call: "start" before it ran, "done" after
    r,          \* expand_along_z: the record argument
    z_max,      \* expand_along_z: the z_max argument
    expanded,   \* expand_along_z: what the call produced
    parser,     \* row parsing: "reader", "headless" or "headed"
    context,    \* row parsing: the table the row comes from, "pass" or "fail"
    input_row,  \* row parsing: the row (a list of fields, or a mapping of columns)
    parsed,     \* row parsing: what the call produced
    csv_path,   \* layer building: the table file
    csv_rows,   \* layer building: the rows csv.reader yields for the file
    layer,      \* layer building: what the call produced
    path,       \* get_reader: the path argument and what the file system holds there
    reader,     \* get_reader: what the call produced
    tables,     \* reader call: the rows of the fail and of the pass table
    layers,     \* reader call: what the call produced
    log         \* the records handed to logging, in order

expandVars == <<r, z_max, expanded>>
recordVars == <<parser, context, input_row, parsed>>
layerVars == <<csv_path, csv_rows, layer>>
readerVars == <<path, reader, tables, layers>>

vars == <<mode, pc, expandVars, recordVars, layerVars, readerVars, log>>

-----------------------------------------------------------------------------
(* Bounds *)

FracDigits == 2     \* decimal digits kept behind the point
MaxZ == 3           \* largest z (in slices) of an input record
MaxId == 1          \* largest trace id / timepoint of an input record
MaxExtra == 1       \* most fields a row has beyond the six of a fail row
MaxRows == 3        \* most rows of a table
MaxFov == 2         \* most fields of view that files of a folder belong to
MaxVariant == 1     \* most other spellings of a file name with the same key and extension
MaxFiles == 4       \* most entries of a folder

Scale == 10 ^ FracDigits

NoValue == [none |-> TRUE]

-----------------------------------------------------------------------------
(* Numbers *)

\* math.floor of a float, as a Python int
floor(v) == v \div Scale

\* a Python int as a coordinate value
FromInt(i) == i * Scale

-----------------------------------------------------------------------------
(* Record model *)

\* gertils.geometry.ImagePoint3D: the constructor rejects a negative
\* coordinate, so every record has z >= 0
ImagePoint3D(z, y, x) ==
    IF z < 0 \/ y < 0 \/ x < 0
    THEN [status |-> "ValueError"]
    ELSE [status |-> "ok", value |-> [z |-> z, y |-> y, x |-> x]]

\* gertils.types.TraceIdFrom0 and TimepointFrom0: wrappers of a non-negative int
TraceId(i) ==
    IF i < 0 THEN [status |-> "ValueError"] ELSE [status |-> "ok", value |-> [get |-> i]]
Timepoint(i) ==
    IF i < 0 THEN [status |-> "ValueError"] ELSE [status |-> "ok", value |-> [get |-> i]]

get_z_coordinate(rec) == rec.point.z
get_y_coordinate(rec) == rec.point.y
get_x_coordinate(rec) == rec.point.x

\* with_new_z with a fault: the new point is built with y and x exchanged
with_new_z_swapped(rec, z) ==
    [rec EXCEPT !.point = ImagePoint3D(FromInt(z), rec.point.x, rec.point.y).value]

\* PointRecord.with_new_z: the same record with a new point whose z is the int z
with_new_z(rec, z) ==
    [rec EXCEPT !.point = ImagePoint3D(FromInt(z), rec.point.y, rec.point.x).value]

\* PointRecord.with_truncated_z
with_truncated_z(rec) == with_new_z(rec, floor(get_z_coordinate(rec)))

\* PointRecord.flatten of reader.py: [trace, timepoint, z, y, x]
flatten_old(rec) ==
    << rec.trace_id.get, rec.timepoint.get,
       get_z_coordinate(rec), get_y_coordinate(rec), get_x_coordinate(rec) >>

\* PointRecord.flatten of point_record.py: [trace, region time, timepoint, z, y, x]
flatten_new(rec) ==
    << rec.trace_id.get, rec.region_time.get, rec.timepoint.get,
       get_z_coordinate(rec), get_y_coordinate(rec), get_x_coordinate(rec) >>

-----------------------------------------------------------------------------
(* Z-expansion *)

\* Python's range(lo, hi) as a list: lo, lo + 1, ..., hi - 1; empty when hi <= lo
range(lo, hi) ==
    IF hi <= lo THEN << >> ELSE [k \in 1..(hi - lo) |-> lo + k - 1]

IsNumber(zm) == zm.type \in {"int", "float"}

\* z_expansion with an off-by-one fault: the successors stop one slice short of z_max
z_expansion_short(rt, z_center, zmax) ==
    LET new(i) == [rec |-> with_new_z(rt, i), flag |-> FALSE]
        before == range(0, z_center)
        after  == range(z_center + 1, zmax)
    IN  [k \in 1..Len(before) |-> new(before[k])]
          \o << [rec |-> rt, flag |-> TRUE] >>
          \o [k \in 1..Len(after) |-> new(after[k])]

\* predecessors, the center, successors: the list that expand_along_z zips apart
z_expansion(rt, z_center, zmax) ==
    LET new(i) == [rec |-> with_new_z(rt, i), flag |-> FALSE]
        before == range(0, z_center)
        after  == range(z_center + 1, zmax + 1)
        predecessors == [k \in 1..Len(before) |-> new(before[k])]
        successors   == [k \in 1..Len(after) |-> new(after[k])]
    IN  predecessors \o << [rec |-> rt, flag |-> TRUE] >> \o successors

\* z_max_below_center with a fault: z_max = z_center is rejected too
z_max_not_above_center(z_center, zmax) == zmax <= z_center

\* "Check that max z and center z make sense together."
z_max_below_center(z_center, zmax) == zmax < z_center

expand_along_z(rec, zm) ==
    IF ~IsNumber(zm)
    THEN [status |-> "TypeError", points |-> << >>, flags |-> << >>]
    ELSE
      LET rt       == with_truncated_z(rec)
          z_center == floor(get_z_coordinate(rt))
          zmax     == floor(zm.val)
          zipped   == z_expansion(rt, z_center, zmax)
          points   == [i \in 1..Len(zipped) |-> zipped[i].rec]
          params   == [i \in 1..Len(zipped) |-> zipped[i].flag]
      IN  IF z_max_below_center(z_center, zmax)
          THEN [status |-> "ValueError", points |-> << >>, flags |-> << >>]
          ELSE IF Len(points) # 1 + zmax
          THEN [status |-> "RuntimeError", points |-> << >>, flags |-> << >>]
          ELSE [status |-> "ok", points |-> points, flags |-> params]

-----------------------------------------------------------------------------
(* Text to number.  A CSV field is a Python str, modelled as the list of   *)
(* its characters.                                                          *)

Ok(v) == [status |-> "ok", why |-> "", value |-> v]
Err(kind, why) == [status |-> kind, why |-> why, value |-> NoValue]

DigitChars == << "0", "1", "2", "3", "4", "5", "6", "7", "8", "9" >>
IsDigit(c) == \E i \in 1..Len(DigitChars) : DigitChars[i] = c
DigitValue(c) == (CHOOSE i \in 1..Len(DigitChars) : DigitChars[i] = c) - 1
AllDigits(str) == \A i \in 1..Len(str) : IsDigit(str[i])

RECURSIVE DigitsValue(_)
DigitsValue(str) ==
    IF str = << >> THEN 0
    ELSE 10 * DigitsValue(SubSeq(str, 1, Len(str) - 1)) + DigitValue(str[Len(str)])

\* the digits behind the point, to FracDigits places
FractionValue(str) ==
    LET n == IF Len(str) < FracDigits THEN Len(str) ELSE FracDigits
    IN  DigitsValue(SubSeq(str, 1, n)) * (10 ^ (FracDigits - n))

\* Python's int(str): a non-empty run of decimal digits, else ValueError
int(str) ==
    IF str # << >> /\ AllDigits(str) THEN Ok(DigitsValue(str))
    ELSE Err("ValueError", "field")

\* Python's float(str): digits, optionally one point and more digits, else ValueError
float(str) ==
    LET dots == { i \in 1..Len(str) : str[i] = "." }
    IN  IF dots = {}
        THEN IF str # << >> /\ AllDigits(str)
             THEN Ok(FromInt(DigitsValue(str)))
             ELSE Err("ValueError", "field")
        ELSE LET d  == CHOOSE i \in dots : TRUE
                 ip == SubSeq(str, 1, d - 1)
                 fp == SubSeq(str, d + 1, Len(str))
             IN  IF /\ Cardinality(dots) = 1
                    /\ AllDigits(ip) /\ AllDigits(fp)
                    /\ (ip # << >> \/ fp # << >>)
                 THEN Ok(FromInt(DigitsValue(ip)) + FractionValue(fp))
                 ELSE Err("ValueError", "field")

-----------------------------------------------------------------------------
(* Record construction *)

\* reader.PointRecord(**kw): a keyword-only dataclass of trace_id, timepoint, point
ReaderPointRecord(kw) ==
    IF DOMAIN kw # {"trace_id", "timepoint", "point"}
    THEN Err("TypeError", "arguments")
    ELSE Ok(kw)

\* point_record.PointRecord(**kw): a keyword-only dataclass of trace_id,
\* region_time, timepoint, point; none of the four has a default
PointRecord(kw) ==
    IF DOMAIN kw # {"trace_id", "region_time", "timepoint", "point"}
    THEN Err("TypeError", "arguments")
    ELSE Ok(kw)

\* columns of the headerless table
InputFileColumn ==
    [TRACE |-> 0, TIMEPOINT |-> 1, Z |-> 2, Y |-> 3, X |-> 4, QC |-> 5]

\* rec[i] for a Python list, 0-based
At(row, i) == row[i + 1]

\* the five conversions of one headerless row, in the order the code makes
\* them; the first one that raises decides the error
convert_fields(row) ==
    LET trace == int(At(row, InputFileColumn.TRACE))
        time  == int(At(row, InputFileColumn.TIMEPOINT))
        z     == float(At(row, InputFileColumn.Z))
        y     == float(At(row, InputFileColumn.Y))
        x     == float(At(row, InputFileColumn.X))
    IN  IF trace.status # "ok" THEN trace
        ELSE IF TraceId(trace.value).status # "ok" THEN Err("ValueError", "field")
        ELSE IF time.status # "ok" THEN time
        ELSE IF Timepoint(time.value).status # "ok" THEN Err("ValueError", "field")
        ELSE IF z.status # "ok" THEN z
        ELSE IF y.status # "ok" THEN y
        ELSE IF x.status # "ok" THEN x
        ELSE IF ImagePoint3D(z.value, y.value, x.value).status # "ok"
        THEN Err("ValueError", "field")
        ELSE Ok([trace_id  |-> TraceId(trace.value).value,
                 timepoint |-> Timepoint(time.value).value,
                 point     |-> ImagePoint3D(z.value, y.value, x.value).value])

\* reader.parse_simple_record
parse_simple_record(row, exp_num_fields) ==
    IF Len(row) # exp_num_fields THEN Err("ValueError", "length")
    ELSE LET kw == convert_fields(row)
         IN  IF kw.status # "ok" THEN kw ELSE ReaderPointRecord(kw.value)

\* HeadlessTraceTimePointParser._parse_single_record
parse_single_record(row, exp_len) ==
    IF Len(row) # exp_len THEN Err("ValueError", "length")
    ELSE LET kw == convert_fields(row)
         IN  IF kw.status # "ok" THEN kw ELSE PointRecord(kw.value)

-----------------------------------------------------------------------------
(* Parsing one row: reader.py (headerless), and the two parsers of         *)
(* points_parser.py                                                         *)

\* reader.parse_passed, one element of the list comprehension
reader_parse_passed_row(row) == parse_simple_record(row, 5)

\* reader.parse_failed, one turn of the loop: the QC field is read before
\* the record is parsed
reader_parse_failed_row(row) ==
    IF Len(row) <= InputFileColumn.QC THEN Err("IndexError", "index")
    ELSE LET qc  == At(row, InputFileColumn.QC)
             rec == parse_simple_record(row, 6)
         IN  IF rec.status # "ok" THEN rec
             ELSE Ok([rec |-> rec.value, qc |-> qc])

\* HeadlessTraceTimePointParser._number_of_columns: the members of InputFileColumn
number_of_columns == Cardinality(DOMAIN InputFileColumn)

\* HeadlessTraceTimePointParser._parse_single_qcpass_record
headless_parse_single_qcpass_record(record) ==
    parse_single_record(record, number_of_columns - 1)

\* HeadlessTraceTimePointParser._parse_single_qcfail_record
headless_parse_single_qcfail_record(record) ==
    LET pt_rec == parse_single_record(record, number_of_columns)
    IN  IF pt_rec.status # "ok" THEN pt_rec
        ELSE Ok([rec |-> pt_rec.value, qc |-> At(record, InputFileColumn.QC)])

\* A cell of a pandas row: an int, a float (fixed point) or a str (characters)
int_of(v) ==
    IF v.type = "int" THEN Ok(v.val)
    ELSE IF v.type = "float" THEN Ok(v.val \div Scale)
    ELSE int(v.val)

float_of(v) ==
    IF v.type = "int" THEN Ok(FromInt(v.val))
    ELSE IF v.type = "float" THEN Ok(v.val)
    ELSE float(v.val)

TIME_INDEX_COLUMN == "timeIndex"

\* HeadedTraceTimePointParser._parse_single_qcpass_record
headed_parse_single_qcpass_record(record) ==
    IF "traceIndex" \notin DOMAIN record THEN Err("KeyError", "traceIndex")
    ELSE IF int_of(record["traceIndex"]).status # "ok" THEN int_of(record["traceIndex"])
    ELSE IF TraceId(int_of(record["traceIndex"]).value).status # "ok"
         THEN Err("ValueError", "field")
    ELSE IF TIME_INDEX_COLUMN \notin DOMAIN record THEN Err("KeyError", TIME_INDEX_COLUMN)
    ELSE IF int_of(record[TIME_INDEX_COLUMN]).status # "ok"
         THEN int_of(record[TIME_INDEX_COLUMN])
    ELSE IF Timepoint(int_of(record[TIME_INDEX_COLUMN]).value).status # "ok"
         THEN Err("ValueError", "field")
    ELSE IF "z" \notin DOMAIN record THEN Err("KeyError", "z")
    ELSE IF float_of(record["z"]).status # "ok" THEN float_of(record["z"])
    ELSE IF "y" \notin DOMAIN record THEN Err("KeyError", "y")
    ELSE IF float_of(record["y"]).status # "ok" THEN float_of(record["y"])
    ELSE IF "x" \notin DOMAIN record THEN Err("KeyError", "x")
    ELSE IF float_of(record["x"]).status # "ok" THEN float_of(record["x"])
    ELSE LET z == float_of(record["z"]).value
             y == float_of(record["y"]).value
             x == float_of(record["x"]).value
         IN  IF ImagePoint3D(z, y, x).status # "ok" THEN Err("ValueError", "field")
             ELSE PointRecord(
                    [trace_id  |-> TraceId(int_of(record["traceIndex"]).value).value,
                     timepoint |-> Timepoint(int_of(record[TIME_INDEX_COLUMN]).value).value,
                     point     |-> ImagePoint3D(z, y, x).value])

\* HeadedTraceTimePointParser._parse_single_qcfail_record
headed_parse_single_qcfail_record(record) ==
    LET pt_rec == headed_parse_single_qcpass_record(record)
    IN  IF pt_rec.status # "ok" THEN pt_rec
        ELSE IF "failCode" \notin DOMAIN record THEN Err("KeyError", "failCode")
        ELSE IF record["failCode"].type # "str" THEN Err("TypeError", "failCode")
        ELSE Ok([rec |-> pt_rec.value, qc |-> record["failCode"].val])

-----------------------------------------------------------------------------
(* Tables to layers (reader.py) *)

DEEP_SKY_BLUE == "#0C7BDC"
GOLDENROD == "#FFC20A"

\* marker sizes 1.5 and 1.0 of the pass layer
SizeCenter == Scale + (Scale \div 2)
SizeOther == Scale

\* a log record
Logged(level, event) == [level |-> level, event |-> event]

\* what a table-level call produces: a value or a raised error, and its log
Returned(v, lg) == [status |-> "ok", why |-> "", value |-> v, log |-> lg]
Raised(e, lg) == [status |-> e.status, why |-> e.why, value |-> NoValue, log |-> lg]

Min(S) == CHOOSE m \in S : \A n \in S : m <= n
Max(S) == CHOOSE m \in S : \A n \in S : m >= n

RECURSIVE Concat(_)
Concat(lists) ==
    IF lists = << >> THEN << >> ELSE Head(lists) \o Concat(Tail(lists))

\* max_z with a fault: the z of the first record instead of the maximum
first_z(records) == get_z_coordinate(records[1])

\* max_z with a fault: the smallest z instead of the largest
min_z(records) == Min({ get_z_coordinate(records[i]) : i \in 1..Len(records) })

\* max(r.get_z_coordinate() for r in records), of a non-empty list
max_z(records) == Max({ get_z_coordinate(records[i]) : i \in 1..Len(records) })

\* collect with a fault: a call that raises is skipped and the rest is kept
collect_good(results) ==
    LET good == SelectSeq(results, LAMBDA res : res.status = "ok")
    IN  Ok([i \in 1..Len(good) |-> good[i].value])

\* a list comprehension or loop over calls that may raise: the first call
\* that raises ends it, otherwise the list of what the calls returned
collect(results) ==
    LET bad == { i \in 1..Len(results) : results[i].status # "ok" }
    IN  IF bad # {} THEN Err(results[Min(bad)].status, results[Min(bad)].why)
        ELSE Ok([i \in 1..Len(results) |-> results[i].value])

\* the (points, flags) pair that expand_along_z returns, or the error it raises
expand_along_z_result(e) ==
    IF e.status # "ok" THEN Err(e.status, "expand")
    ELSE Ok([points |-> e.points, flags |-> e.flags])

\* expand_along_z as a call that returns (points, flags) or raises
expansion_of(rec, zm) == expand_along_z_result(expand_along_z(rec, zm))

\* the loop "for rec in records: expand_along_z(rec, z_max=max_z) ..."
expand_all(records) ==
    collect([i \in 1..Len(records) |->
               expansion_of(records[i], [type |-> "float", val |-> max_z(records)])])

\* sizes_of with a fault: every marker has the size of a point off center
sizes_all_other(center_flags) == [i \in 1..Len(center_flags) |-> SizeOther]

\* sizes = [1.5 if is_center else 1.0 for is_center in center_flags]
sizes_of(center_flags) ==
    [i \in 1..Len(center_flags) |-> IF center_flags[i] THEN SizeCenter ELSE SizeOther]

\* points, center_flags and sizes of parse_passed, from the expansions
passed_layer_data(exps) ==
    IF exps.status # "ok" THEN Raised(exps, << >>)
    ELSE Returned(
           [points |-> Concat([i \in 1..Len(exps.value) |-> exps.value[i].points]),
            center_flags |-> Concat([i \in 1..Len(exps.value) |-> exps.value[i].flags]),
            params |->
              [size |-> sizes_of(Concat([i \in 1..Len(exps.value) |->
                                           exps.value[i].flags]))]],
           << >>)

\* parse_passed after its first line: max_z over the records, then the loop
expand_passed(records) ==
    IF records.status # "ok" THEN Raised(records, << >>)
    ELSE IF records.value = << >> THEN Raised(Err("ValueError", "max of empty"), << >>)
    ELSE passed_layer_data(expand_all(records.value))

\* reader.parse_passed
parse_passed(rows) ==
    expand_passed(collect([i \in 1..Len(rows) |-> reader_parse_passed_row(rows[i])]))

\* fail_codes with a fault: the code of the first row for every point
fail_codes_of_first(record_qc_pairs, expansions) ==
    Concat([i \in 1..Len(expansions) |->
              [k \in 1..Len(expansions[i].points) |-> record_qc_pairs[1].qc]])

\* fail_codes with a fault: one code for each row instead of one for each point
fail_codes_per_row(record_qc_pairs, expansions) ==
    [i \in 1..Len(expansions) |-> record_qc_pairs[i].qc]

\* codes after the loop "codes.extend([qc] * len(new_points))"
fail_codes(record_qc_pairs, expansions) ==
    Concat([i \in 1..Len(expansions) |->
              [k \in 1..Len(expansions[i].points) |-> record_qc_pairs[i].qc]])

\* failed_params with a fault: a visible marker, of the size 1.0
failed_params_sized(codes) ==
    [size |-> SizeOther,
     text |-> [string |-> "{failCodes}", color |-> DEEP_SKY_BLUE],
     properties |-> [failCodes |-> codes]]

\* params of parse_failed
failed_params(codes) ==
    [size |-> 0,
     text |-> [string |-> "{failCodes}", color |-> DEEP_SKY_BLUE],
     properties |-> [failCodes |-> codes]]

\* points, center_flags and params of parse_failed, from the (record, qc)
\* pairs and the expansions of the records
failed_layer_data(record_qc_pairs, exps) ==
    IF exps.status # "ok" THEN Raised(exps, << >>)
    ELSE Returned(
           [points |-> Concat([i \in 1..Len(exps.value) |-> exps.value[i].points]),
            center_flags |-> Concat([i \in 1..Len(exps.value) |-> exps.value[i].flags]),
            params |-> failed_params(fail_codes(record_qc_pairs, exps.value))],
           << >>)

\* parse_failed after its first loop: max_z over the records, then the loop
expand_failed(pairs) ==
    IF pairs.status = "IndexError" THEN Raised(pairs, << Logged("ERROR", "Bad row") >>)
    ELSE IF pairs.status # "ok" THEN Raised(pairs, << >>)
    ELSE IF pairs.value = << >> THEN Raised(Err("ValueError", "max of empty"), << >>)
    ELSE failed_layer_data(
           pairs.value,
           expand_all([i \in 1..Len(pairs.value) |-> pairs.value[i].rec]))

\* reader.parse_failed
parse_failed(rows) ==
    expand_failed(collect([i \in 1..Len(rows) |-> reader_parse_failed_row(rows[i])]))

\* IterativePointsParser.parse_all_qcpass and parse_all_qcfail of the two
\* parsers of points_parser.py, given the records _gen_records yields
headless_parse_all_qcpass(records) ==
    collect([i \in 1..Len(records) |-> headless_parse_single_qcpass_record(records[i])])

headless_parse_all_qcfail(records) ==
    collect([i \in 1..Len(records) |-> headless_parse_single_qcfail_record(records[i])])

headed_parse_all_qcpass(records) ==
    collect([i \in 1..Len(records) |-> headed_parse_single_qcpass_record(records[i])])

headed_parse_all_qcfail(records) ==
    collect([i \in 1..Len(records) |-> headed_parse_single_qcfail_record(records[i])])

\* QCStatus.filename_extension
filename_extension(qc) == IF qc = "fail" THEN ".qcfail.csv" ELSE ".qcpass.csv"

\* QCStatus.from_csv_path: the first member, in the order FAIL, PASS, whose
\* extension the file name ends with
from_csv_path(fp) ==
    IF fp.ext = filename_extension("fail") THEN "fail"
    ELSE IF fp.ext = filename_extension("pass") THEN "pass"
    ELSE "None"

\* the merge {**static_params, **base_meta, **extra_meta, **shape_meta}
merge(a, b) ==
    [k \in DOMAIN a \cup DOMAIN b |-> IF k \in DOMAIN b THEN b[k] ELSE a[k]]

\* build_single_file_points_layer from "base_meta = ..." on: the layer of
\* a table of status qc whose rows read_rows turned into `read`
points_layer(qc, read) ==
    IF read.status # "ok"
    THEN Raised(read, << Logged("DEBUG", "Will parse as QC-" \o qc) >> \o read.log)
    ELSE Returned(
           [data |-> [i \in 1..Len(read.value.points) |->
                        flatten_old(read.value.points[i])],
            params |->
              merge(merge(merge([edge_width |-> Scale \div 10,
                                 edge_width_is_relative |-> TRUE,
                                 n_dimensional |-> FALSE],
                                [edge_color |-> IF qc = "pass" THEN GOLDENROD
                                                ELSE DEEP_SKY_BLUE,
                                 face_color |-> IF qc = "pass" THEN GOLDENROD
                                                ELSE DEEP_SKY_BLUE]),
                          read.value.params),
                    [symbol |-> [i \in 1..Len(read.value.center_flags) |->
                                   IF read.value.center_flags[i] THEN "*" ELSE "o"]]),
            type |-> "points"],
           << Logged("DEBUG", "Will parse as QC-" \o qc) >> \o read.log
             \o (IF read.value.points = << >>
                 THEN << Logged("WARNING", "No data rows parsed!") >> ELSE << >>))

\* reader.build_single_file_points_layer, given the rows csv.reader yields
build_single_file_points_layer(fp, rows) ==
    IF from_csv_path(fp) = "pass" THEN points_layer("pass", parse_passed(rows))
    ELSE IF from_csv_path(fp) = "fail" THEN points_layer("fail", parse_failed(rows))
    ELSE Raised(Err("ValueError", "QC status"),
                << Logged("ERROR", "Could not infer QC status") >>)

-----------------------------------------------------------------------------
(* File-set classification (reader.get_reader) *)

\* what get_reader produces, with the log it wrote
NoReader(lg) ==
    [status |-> "None", zarr |-> NoValue, fail_path |-> NoValue, pass_path |-> NoValue,
     log |-> lg]
\* do_not_parse(path=path, why=why) followed by return None
NotParsable(why) == NoReader(<< Logged("DEBUG", why) >>)
RaisedRuntimeError(why) ==
    [status |-> "RuntimeError", zarr |-> NoValue, fail_path |-> NoValue,
     pass_path |-> NoValue, log |-> << >>]
Reader(zarr, fail_path, pass_path) ==
    [status |-> "Reader", zarr |-> zarr, fail_path |-> fail_path, pass_path |-> pass_path,
     log |-> << >>]

\* gertils.pathtools.get_fov_sort_key: the field of view of a file name with
\* the given extension, 0 (None) when the name gives none
get_fov_sort_key(fp, extension) == IF fp.ext = extension THEN fp.fov ELSE 0

\* gertils.pathtools.find_multiple_paths_by_fov: the entries of the folder
\* that have one of the extensions and a field of view, grouped by field of
\* view, each group in the order of the listing
find_multiple_paths_by_fov(entries, extensions) ==
    LET fovOf(fp) == Max({0} \cup { get_fov_sort_key(fp, extensions[e]) :
                                      e \in 1..Len(extensions) })
    IN  [k \in { fovOf(entries[i]) : i \in 1..Len(entries) } \ {0} |->
           SelectSeq(entries, LAMBDA fp : fovOf(fp) = k)]

\* the loop that fills path_by_status: a later file of a status replaces an
\* earlier one
path_by_status_of(files) ==
    [qc \in { from_csv_path(files[i]) : i \in 1..Len(files) } \ {"None"} |->
       files[Max({ i \in 1..Len(files) : from_csv_path(files[i]) = qc })]]

\* pathlib.Path.suffix: the last dotted component of the name
suffix(fp) == IF fp.ext \in {".qcfail.csv", ".qcpass.csv"} THEN ".csv" ELSE fp.ext

\* not_the_zarr with a fault: only the field of view is compared, not the suffix
not_of_fov(potential_zarr, fov) == potential_zarr.fov # fov

\* the test of the file left after the two tables
not_the_zarr(potential_zarr, fov) ==
    suffix(potential_zarr) # ".zarr" \/ get_fov_sort_key(potential_zarr, ".zarr") # fov

\* get_reader from "left_to_match = ..." on
reader_for_rest(fov, left_to_match, fail_path, pass_path) ==
    IF Len(left_to_match) # 1 THEN RaisedRuntimeError("Nonsense!")
    ELSE IF not_the_zarr(left_to_match[1], fov)
    THEN NotParsable("Could not find ZARR for FOV")
    ELSE Reader(left_to_match[1], fail_path, pass_path)

\* reader_for_statuses with a fault: left_to_match keeps the files that differ
\* from the fail path or from the pass path, which is every file
reader_for_statuses_or(fov, files, path_by_status) ==
    IF "fail" \notin DOMAIN path_by_status \/ "pass" \notin DOMAIN path_by_status
    THEN NotParsable("Could not find 1 each of QC status (pass/fail)")
    ELSE IF DOMAIN path_by_status \ {"fail", "pass"} # {}
    THEN RaisedRuntimeError("Extra QC status/path pairs!")
    ELSE reader_for_rest(
           fov,
           SelectSeq(files, LAMBDA f : f # path_by_status["fail"] \/ f # path_by_status["pass"]),
           path_by_status["fail"], path_by_status["pass"])

\* get_reader from the two pops on
reader_for_statuses(fov, files, path_by_status) ==
    IF "fail" \notin DOMAIN path_by_status \/ "pass" \notin DOMAIN path_by_status
    THEN NotParsable("Could not find 1 each of QC status (pass/fail)")
    ELSE IF DOMAIN path_by_status \ {"fail", "pass"} # {}
    THEN RaisedRuntimeError("Extra QC status/path pairs!")
    ELSE reader_for_rest(
           fov,
           SelectSeq(files, LAMBDA f : f \notin {path_by_status["fail"], path_by_status["pass"]}),
           path_by_status["fail"], path_by_status["pass"])

\* get_reader from "fov, files = next(iter(path_by_fov.items()))" on
reader_for_files(fov, files) ==
    IF Len(files) # 3 THEN NotParsable("Not exactly 3 files")
    ELSE reader_for_statuses(fov, files, path_by_status_of(files))

\* not_exactly_one_fov with a fault: only a folder without any field of view is rejected
no_fov(path_by_fov) == DOMAIN path_by_fov = {}

\* len(path_by_fov) != 1
not_exactly_one_fov(path_by_fov) == Cardinality(DOMAIN path_by_fov) # 1

\* next(iter(path_by_fov.items())): the first field of view
first_fov(path_by_fov) == Min(DOMAIN path_by_fov)

\* get_reader from the test of len(path_by_fov) on
reader_for_fovs(path_by_fov) ==
    IF not_exactly_one_fov(path_by_fov) THEN NotParsable("Not exactly 1 FOV found")
    ELSE reader_for_files(first_fov(path_by_fov), path_by_fov[first_fov(path_by_fov)])

\* reader.get_reader
get_reader(p) ==
    IF p.kind \notin {"file", "dir"} THEN NoReader(<< >>)
    ELSE IF p.kind # "dir" THEN NotParsable("Not a folder/directory")
    ELSE reader_for_fovs(
           find_multiple_paths_by_fov(
             p.entries, << ".zarr", filename_extension("fail"), filename_extension("pass") >>))

\* gertils.zarr_tools.read_zarr: the array stored at the path
read_zarr(fp) == [array_of |-> fp]

\* layers_of with a fault: the pass layer is returned before the fail layer
layers_swapped(image_layer, failures_layer, successes_layer) ==
    IF failures_layer.status # "ok" THEN Raised(failures_layer, failures_layer.log)
    ELSE IF successes_layer.status # "ok"
    THEN Raised(successes_layer, failures_layer.log \o successes_layer.log)
    ELSE Returned(<< image_layer, successes_layer.value, failures_layer.value >>,
                  failures_layer.log \o successes_layer.log)

\* the body of parse: the failures layer is built before the successes layer
layers_of(image_layer, failures_layer, successes_layer) ==
    IF failures_layer.status # "ok" THEN Raised(failures_layer, failures_layer.log)
    ELSE IF successes_layer.status # "ok"
    THEN Raised(successes_layer, failures_layer.log \o successes_layer.log)
    ELSE Returned(<< image_layer, failures_layer.value, successes_layer.value >>,
                  failures_layer.log \o successes_layer.log)

\* get_reader.parse, the reader: fail_rows and pass_rows are the rows of the
\* two tables when it is called
parse(rd, fail_rows, pass_rows) ==
    layers_of([data |-> read_zarr(rd.zarr), params |-> << >>, type |-> "image"],
              build_single_file_points_layer(rd.fail_path, fail_rows),
              build_single_file_points_layer(rd.pass_path, pass_rows))

-----------------------------------------------------------------------------
(* Inputs *)

\* z values of input records: every half slice from 0 to MaxZ
ZValues == { k * (Scale \div 2) : k \in 0..(2 * MaxZ) }
XYValues == { 0, Scale + (Scale \div 4) }
TraceIds == { TraceId(i).value : i \in 0..MaxId }
Timepoints == { Timepoint(i).value : i \in 0..MaxId }

Points == [z : ZValues, y : XYValues, x : XYValues]

\* reader.PointRecord (older schema) and point_record.PointRecord (newer schema)
OldRecords == [trace_id : TraceIds, timepoint : Timepoints, point : Points]
NewRecords ==
    [trace_id : TraceIds, region_time : Timepoints, timepoint : Timepoints, point : Points]
Records == OldRecords \cup NewRecords

\* z_max arguments: floats (down to -0.5 and up to MaxZ + 0.5), ints, and a non-number
ZMaxArgs ==
    { [type |-> "float", val |-> v] : v \in ZValues \cup { -(Scale \div 2), FromInt(MaxZ) + (Scale \div 2) } }
    \cup { [type |-> "int", val |-> FromInt(i)] : i \in 0..MaxZ }
    \cup { [type |-> "str", val |-> 0] }

-----------------------------------------------------------------------------
(* Specification of a direct call of expand_along_z *)

IdleExpand == r = NoValue /\ z_max = NoValue /\ expanded = NoValue
IdleRecord == parser = NoValue /\ context = NoValue /\ input_row = NoValue /\ parsed = NoValue
IdleLayer == csv_path = NoValue /\ csv_rows = NoValue /\ layer = NoValue
IdleReader == path = NoValue /\ reader = NoValue /\ tables = NoValue /\ layers = NoValue

InitExpand ==
    /\ mode = "expand"
    /\ pc = "start"
    /\ r \in Records
    /\ z_max \in ZMaxArgs
    /\ expanded = NoValue
    /\ log = << >>
    /\ IdleRecord /\ IdleLayer /\ IdleReader

ExpandAlongZ ==
    /\ mode = "expand"
    /\ pc = "start"
    /\ expanded' = expand_along_z(r, z_max)
    /\ pc' = "done"
    /\ UNCHANGED <<mode, r, z_max, recordVars, layerVars, readerVars, log>>

NextExpand == ExpandAlongZ

SpecExpand == InitExpand /\ [][NextExpand]_vars

ExpandDone == mode = "expand" /\ pc = "done"

\* the floored z of the record argument and the floored z_max argument
zCenterOf(rec) == floor(get_z_coordinate(rec))
zMaxOf(zm) == floor(zm.val)

\* C1: for a record with floored z zCenter and a z_max whose floor zMax is at
\* least zCenter, expand_along_z returns exactly zMax + 1 records and zMax + 1
\* flags, exactly one flag is true, the record at the true flag has z equal to
\* zCenter, and the length check (RuntimeError) is not triggered.
C1_ExpandCount ==
    (ExpandDone /\ IsNumber(z_max) /\ zMaxOf(z_max) >= zCenterOf(r)) =>
        /\ expanded.status = "ok"
        /\ Len(expanded.points) = zMaxOf(z_max) + 1
        /\ Len(expanded.flags) = zMaxOf(z_max) + 1
        /\ Cardinality({ i \in 1..Len(expanded.flags) : expanded.flags[i] }) = 1
        /\ \A i \in 1..Len(expanded.flags) :
              expanded.flags[i] =>
                get_z_coordinate(expanded.points[i]) = FromInt(zCenterOf(r))

\* a fractional z was expanded strictly below a larger z_max
C1_Witness ==
    /\ ExpandDone /\ IsNumber(z_max)
    /\ get_z_coordinate(r) # FromInt(zCenterOf(r))
    /\ zCenterOf(r) > 0
    /\ zMaxOf(z_max) > zCenterOf(r)
    /\ expanded.status = "ok"
    /\ Len(expanded.points) = zMaxOf(z_max) + 1

\* C2: expand_along_z fails with ValueError and returns no records exactly
\* when the floored z_max is strictly less than the floored z of the record;
\* a fractional z_max that floors to at least zCenter does not fail.
C2_ExpandRejects ==
    (ExpandDone /\ IsNumber(z_max)) =>
        /\ (zMaxOf(z_max) < zCenterOf(r)) <=> (expanded.status = "ValueError")
        /\ (expanded.status = "ValueError") => (expanded.points = << >>)

\* a fractional z_max below the record's floored z was rejected
C2_Witness ==
    /\ ExpandDone /\ z_max.type = "float"
    /\ z_max.val # FromInt(zMaxOf(z_max))
    /\ zMaxOf(z_max) < zCenterOf(r)
    /\ expanded.status = "ValueError"

\* C16: the records expand_along_z returns are in ascending slice order, the
\* i-th having z = i for every i in 0..zMax and no other; the record at zCenter
\* is flagged true and is the truncated input record, every other record is
\* flagged false; and every record keeps the trace id, the timepoint, x and y
\* of the input.
C16_SlicesInOrder ==
    (ExpandDone /\ expanded.status = "ok") =>
        /\ DOMAIN expanded.points = 1..(zMaxOf(z_max) + 1)
        /\ DOMAIN expanded.flags = 1..(zMaxOf(z_max) + 1)
        /\ \A i \in 0..zMaxOf(z_max) :
              /\ get_z_coordinate(expanded.points[i + 1]) = FromInt(i)
              /\ expanded.flags[i + 1] <=> (i = zCenterOf(r))
              /\ expanded.points[i + 1].trace_id = r.trace_id
              /\ expanded.points[i + 1].timepoint = r.timepoint
              /\ get_y_coordinate(expanded.points[i + 1]) = get_y_coordinate(r)
              /\ get_x_coordinate(expanded.points[i + 1]) = get_x_coordinate(r)
              /\ DOMAIN expanded.points[i + 1] = DOMAIN r
        /\ expanded.points[zCenterOf(r) + 1] = with_truncated_z(r)

\* a record of the newer schema with a fractional z and different x and y was
\* expanded, with slices below and above its center
C16_Witness ==
    /\ ExpandDone /\ expanded.status = "ok"
    /\ "region_time" \in DOMAIN r
    /\ get_z_coordinate(r) # FromInt(zCenterOf(r))
    /\ get_x_coordinate(r) # get_y_coordinate(r)
    /\ zCenterOf(r) > 0 /\ zMaxOf(z_max) > zCenterOf(r)
    /\ expanded.flags[zCenterOf(r) + 1]
    /\ ~ expanded.flags[1] /\ ~ expanded.flags[zMaxOf(z_max) + 1]

-----------------------------------------------------------------------------
(* Specification of parsing one row *)

\* fields of a table row, column by column: well formed ones and bad ones
TraceLits == { <<"0">>, <<"0", "1">>, <<"R">> }
TimeLits  == { <<"1">>, <<"1", ".", "5">> }
ZLits     == { <<"0">>, <<"2", ".", "5">>, <<"3">>, <<"z">> }
YLits     == { <<"1", ".", "2", "5">>, << >> }
XLits     == { <<"7">>, <<".", "5">> }
QCLits    == { <<"R">>, <<"R", ";", "S">>, <<"3">> }

BaseRows ==
    { <<t, tp, z, y, x, q>> :
        t \in TraceLits, tp \in TimeLits, z \in ZLits, y \in YLits, x \in XLits, q \in QCLits }

Extra(k) == [i \in 1..k |-> <<"x">>]

\* rows of csv.reader: the empty row of a blank line, rows of 4 to 6 fields,
\* and rows with up to MaxExtra fields more
CsvRows ==
    { SubSeq(b, 1, n) : b \in BaseRows, n \in {0, 4, 5, 6} }
    \cup { b \o Extra(k) : b \in BaseRows, k \in 1..MaxExtra }

\* rows of pandas.read_csv(...).iterrows(): a mapping from column name to cell
IntCell(i) == [type |-> "int", val |-> i]
FloatCell(v) == [type |-> "float", val |-> v]
StrCell(str) == [type |-> "str", val |-> str]

TraceCells == { IntCell(0), FloatCell(FromInt(1)), StrCell(<<"R">>) }
TimeCells  == { IntCell(1), FloatCell(FromInt(1) + (Scale \div 2)) }
ZCells     == { FloatCell(FromInt(2) + (Scale \div 2)), IntCell(3), StrCell(<<"z">>) }
YCells     == { FloatCell(FromInt(1) + (Scale \div 4)) }
XCells     == { IntCell(7), FloatCell(Scale \div 2) }
CodeCells  == { StrCell(<<"R", ";", "S">>), IntCell(3) }

PandasRows ==
    LET Named(tc, t, tp, z, y, x) ==
            [c \in {tc, "timeIndex", "z", "y", "x"} |->
               IF c = tc THEN t ELSE IF c = "timeIndex" THEN tp
               ELSE IF c = "z" THEN z ELSE IF c = "y" THEN y ELSE x]
        Pass == { Named(tc, t, tp, z, y, x) :
                    tc \in {"traceIndex", "traceId"}, t \in TraceCells, tp \in TimeCells,
                    z \in ZCells, y \in YCells, x \in XCells }
        WithCode(m, q) ==
            [c \in DOMAIN m \cup {"failCode"} |-> IF c = "failCode" THEN q ELSE m[c]]
    IN  Pass \cup { WithCode(m, q) : m \in Pass, q \in CodeCells }

InitRecord ==
    /\ mode = "record"
    /\ pc = "start"
    /\ parser \in {"reader", "headless", "headed"}
    /\ context \in {"pass", "fail"}
    /\ input_row \in (IF parser = "headed" THEN PandasRows ELSE CsvRows)
    /\ parsed = NoValue
    /\ log = << >>
    /\ IdleExpand /\ IdleLayer /\ IdleReader

\* one input_row through reader.parse_passed / reader.parse_failed
ReaderParseRow ==
    /\ mode = "record" /\ pc = "start" /\ parser = "reader"
    /\ parsed' = IF context = "pass" THEN reader_parse_passed_row(input_row)
                 ELSE reader_parse_failed_row(input_row)
    /\ pc' = "done"
    /\ UNCHANGED <<mode, parser, context, input_row, expandVars, layerVars, readerVars, log>>

\* one input_row through HeadlessTraceTimePointParser
HeadlessParseRow ==
    /\ mode = "record" /\ pc = "start" /\ parser = "headless"
    /\ parsed' = IF context = "pass" THEN headless_parse_single_qcpass_record(input_row)
                 ELSE headless_parse_single_qcfail_record(input_row)
    /\ pc' = "done"
    /\ UNCHANGED <<mode, parser, context, input_row, expandVars, layerVars, readerVars, log>>

\* one input_row through HeadedTraceTimePointParser
HeadedParseRow ==
    /\ mode = "record" /\ pc = "start" /\ parser = "headed"
    /\ parsed' = IF context = "pass" THEN headed_parse_single_qcpass_record(input_row)
                 ELSE headed_parse_single_qcfail_record(input_row)
    /\ pc' = "done"
    /\ UNCHANGED <<mode, parser, context, input_row, expandVars, layerVars, readerVars, log>>

NextRecord == ReaderParseRow \/ HeadlessParseRow \/ HeadedParseRow

SpecRecord == InitRecord /\ [][NextRecord]_vars

RecordDone == mode = "record" /\ pc = "done"

\* the number of fields a headerless row must have in its context
ExpectedLength == IF context = "pass" THEN 5 ELSE 6

\* C7: in the headerless variant a pass row is accepted only with exactly 5
\* fields and a fail row only with exactly 6; a row of any other length is
\* rejected with the length-mismatch ValueError and with no other error.
C7_LengthMismatch ==
    (RecordDone /\ parser \in {"reader", "headless"}) =>
        /\ (parsed.status = "ok") => (Len(input_row) = ExpectedLength)
        /\ (Len(input_row) # ExpectedLength) =>
              (parsed.status = "ValueError" /\ parsed.why = "length")

\* a headerless row whose fields all convert: two ints and three floats
WellFormedCsvRow(rw) ==
    /\ Len(rw) = 5
    /\ int(rw[1]).status = "ok" /\ int(rw[2]).status = "ok"
    /\ float(rw[3]).status = "ok" /\ float(rw[4]).status = "ok"
    /\ float(rw[5]).status = "ok"

\* a headed row whose cells pandas read as two ints and three numbers
WellFormedPandasRow(m) ==
    /\ DOMAIN m = {"traceIndex", "timeIndex", "z", "y", "x"}
    /\ m["traceIndex"].type = "int" /\ m["timeIndex"].type = "int"
    /\ \A c \in {"z", "y", "x"} : m[c].type \in {"int", "float"}

\* the numeric fields of a row in the order [trace, timepoint, z, y, x]
NumericFields ==
    IF parser = "headed"
    THEN << input_row["traceIndex"].val, input_row["timeIndex"].val,
            float_of(input_row["z"]).value, float_of(input_row["y"]).value,
            float_of(input_row["x"]).value >>
    ELSE << int(input_row[1]).value, int(input_row[2]).value,
            float(input_row[3]).value, float(input_row[4]).value,
            float(input_row[5]).value >>

\* flatten() of whichever PointRecord class built the record
Flattened(rec) ==
    IF "region_time" \in DOMAIN rec THEN flatten_new(rec) ELSE flatten_old(rec)

\* C9: for every well-formed row, the headed and the headerless parser of
\* points_parser.py succeed on it as a pass record, and flatten() of the
\* PointRecord reproduces the row's numeric fields in the schema's order.
C9_RoundTrip ==
    (/\ RecordDone /\ context = "pass"
     /\ \/ parser = "headless" /\ WellFormedCsvRow(input_row)
        \/ parser = "headed" /\ WellFormedPandasRow(input_row)) =>
        /\ parsed.status = "ok"
        /\ Flattened(parsed.value) = NumericFields

-----------------------------------------------------------------------------
(* Specification of building one points layer from one table file *)

\* A file of the folder: the field of view its name gives (0: none), the
\* extension its name ends with, and which spelling of such a name it is
File(k, e, v) == [fov |-> k, ext |-> e, variant |-> v]

Extensions == << ".zarr", filename_extension("fail"), filename_extension("pass") >>

FovFiles ==
    { File(k, Extensions[e], v) :
        k \in 1..MaxFov, e \in 1..Len(Extensions), v \in 0..MaxVariant }

\* a file that is none of ours
OtherFile == File(0, ".txt", 0)

\* rows of a table: z varies (one z does not convert) and the trace with it,
\* fail rows carry a code
LayerRows ==
    LET PassRows ==
            { << (IF Len(z) = 1 THEN <<"0">> ELSE <<"1">>), <<"1">>, z,
                 <<"1", ".", "2", "5">>, <<"7">> >> : z \in ZLits }
    IN  PassRows \cup { rw \o <<q>> : rw \in PassRows, q \in { <<"R">>, <<"R", ";", "S">> } }

TablesOf(n) == UNION { [1..k -> LayerRows] : k \in 0..n }

\* the first line of a table written with a header: the column names of the
\* headed schema, the name "timeIndex" among them
TimeIndexChars == <<"t", "i", "m", "e", "I", "n", "d", "e", "x">>

HeaderRows ==
    LET PassHeader == << <<"t", "r", "a", "c", "e", "I", "n", "d", "e", "x">>,
                         TimeIndexChars, <<"z">>, <<"y">>, <<"x">> >>
    IN  { PassHeader, PassHeader \o << <<"f", "a", "i", "l", "C", "o", "d", "e">> >> }

\* tables of up to n lines of which the first is a header
HeadedTablesOf(n) == { <<h>> \o t : h \in HeaderRows, t \in TablesOf(n - 1) }

InitLayer ==
    /\ mode = "layer"
    /\ pc = "start"
    /\ csv_path \in { File(1, Extensions[e], 0) : e \in 1..Len(Extensions) }
    /\ csv_rows \in TablesOf(MaxRows) \cup HeadedTablesOf(MaxRows)
    /\ layer = NoValue
    /\ log = << >>
    /\ IdleExpand /\ IdleRecord /\ IdleReader

BuildLayer ==
    /\ mode = "layer" /\ pc = "start"
    /\ LET built == build_single_file_points_layer(csv_path, csv_rows)
       IN  /\ layer' = [status |-> built.status, why |-> built.why, value |-> built.value]
           /\ log' = log \o built.log
    /\ pc' = "done"
    /\ UNCHANGED <<mode, csv_path, csv_rows, expandVars, recordVars, readerVars>>

NextLayer == BuildLayer

SpecLayer == InitLayer /\ [][NextLayer]_vars

LayerDone == mode = "layer" /\ pc = "done"

\* C8: building a points layer from a pass or fail table with zero data rows
\* logs a warning and returns an empty, valid points layer; it does not raise.
C8_EmptyTable ==
    (LayerDone /\ from_csv_path(csv_path) # "None" /\ csv_rows = << >>) =>
        /\ layer.status = "ok"
        /\ layer.value.data = << >>
        /\ layer.value.type = "points"
        /\ \E i \in 1..Len(log) : log[i].level = "WARNING"

\* the z fields of the rows of the table, as numbers
RowZs == { float(csv_rows[i][3]).value : i \in 1..Len(csv_rows) }

\* math.ceil of a float
ceil(v) == -((-v) \div Scale)

\* every row of the table is a fail row that parses
AllFailRowsParse ==
    \A i \in 1..Len(csv_rows) : reader_parse_failed_row(csv_rows[i]).status = "ok"

\* C10 as stated: the fail layer of a table of n rows has n * ceil(max z) points.
C10_CountByCeiling ==
    (LayerDone /\ from_csv_path(csv_path) = "fail" /\ layer.status = "ok") =>
        Len(layer.value.data) = Len(csv_rows) * ceil(Max(RowZs))

\* C10 amended: the fail layer of a non-empty table of n rows that all parse
\* has n * (floor(max z) + 1) points.
C10_CountByFloor ==
    (/\ LayerDone /\ from_csv_path(csv_path) = "fail"
     /\ csv_rows # << >> /\ AllFailRowsParse) =>
        /\ layer.status = "ok"
        /\ Len(layer.value.data) = Len(csv_rows) * (floor(Max(RowZs)) + 1)

\* a fail table of rows with different z was expanded
C10_Witness ==
    /\ LayerDone /\ from_csv_path(csv_path) = "fail"
    /\ layer.status = "ok"
    /\ Len(csv_rows) >= 2 /\ Cardinality(RowZs) >= 2
    /\ Len(layer.value.data) = Len(csv_rows) * (floor(Max(RowZs)) + 1)
    /\ Len(layer.value.data) > Len(csv_rows)

\* every row of the table is a pass row that parses
AllPassRowsParse ==
    \A i \in 1..Len(csv_rows) : reader_parse_passed_row(csv_rows[i]).status = "ok"

\* a layer was built from a pass table, from a fail table
PassLayer == LayerDone /\ from_csv_path(csv_path) = "pass" /\ layer.status = "ok"
FailLayer == LayerDone /\ from_csv_path(csv_path) = "fail" /\ layer.status = "ok"

\* the number of points of one row, and the points and the row of an index
PerRow == floor(Max(RowZs)) + 1
Block(i) == ((i - 1) * PerRow + 1)..(i * PerRow)
RowOf(k) == ((k - 1) \div PerRow) + 1

\* the fields of row i as numbers, and the slice of its center
RowTrace(i) == int(csv_rows[i][1]).value
RowTime(i) == int(csv_rows[i][2]).value
RowY(i) == float(csv_rows[i][4]).value
RowX(i) == float(csv_rows[i][5]).value
RowCenter(i) == floor(float(csv_rows[i][3]).value)

\* point k of the layer is the center point of its row
IsCenter(k) == layer.value.data[k][3] = FromInt(RowCenter(RowOf(k)))

\* C11: in the fail layer each row of the table has exactly one center-flagged
\* point among its expanded points, and every expanded point of the row carries
\* the row's fail code text, unchanged, in properties.failCodes at its index.
C11_CenterAndCodesPerRow ==
    FailLayer =>
        /\ Len(layer.value.params.symbol) = Len(csv_rows) * PerRow
        /\ Len(layer.value.params.properties.failCodes) = Len(csv_rows) * PerRow
        /\ \A i \in 1..Len(csv_rows) :
              /\ Cardinality({ k \in Block(i) : layer.value.params.symbol[k] = "*" }) = 1
              /\ \A k \in Block(i) :
                    layer.value.params.properties.failCodes[k] = csv_rows[i][6]

\* a fail layer of rows with different codes, each expanded to several points
C11_Witness ==
    /\ FailLayer
    /\ PerRow >= 2
    /\ \E i, j \in 1..Len(csv_rows) : csv_rows[i][6] # csv_rows[j][6]
    /\ \E k \in 1..Len(layer.value.data) :
          layer.value.params.symbol[k] = "o"
          /\ layer.value.params.properties.failCodes[k] = <<"R", ";", "S">>

\* C12: the size parameter of the fail layer is 0, whatever the number of
\* rows and of expanded points.
C12_FailSizeZero == FailLayer => layer.value.params.size = 0

\* a fail layer of several rows and more points than rows, with size 0
C12_Witness ==
    /\ FailLayer
    /\ Len(csv_rows) >= 2
    /\ Len(layer.value.data) > Len(csv_rows)
    /\ layer.value.params.size = 0

\* C13: in the pass layer, point i has size 1.5 and symbol "*" exactly when it
\* is the center point of its row, and size 1.0 and symbol "o" otherwise;
\* edge and face color are both the pass color.
C13_PassSizeSymbolColor ==
    PassLayer =>
        /\ layer.value.params.edge_color = GOLDENROD
        /\ layer.value.params.face_color = GOLDENROD
        /\ \A k \in 1..Len(layer.value.data) :
              IF IsCenter(k)
              THEN /\ layer.value.params.size[k] = SizeCenter
                   /\ layer.value.params.symbol[k] = "*"
              ELSE /\ layer.value.params.size[k] = SizeOther
                   /\ layer.value.params.symbol[k] = "o"

\* a pass layer with a center point that is neither first nor last of its row
C13_Witness ==
    /\ PassLayer
    /\ \E k \in 2..(Len(layer.value.data) - 1) :
          /\ layer.value.params.size[k] = SizeCenter
          /\ layer.value.params.size[k - 1] = SizeOther
          /\ layer.value.params.size[k + 1] = SizeOther
          /\ RowOf(k - 1) = RowOf(k) /\ RowOf(k + 1) = RowOf(k)

\* C17: within parse_passed and parse_failed, for every non-empty table whose
\* rows all parse, z_max is at least the z of every record, so expand_along_z
\* raises for none of them ("Max z must be at least as great as central z"
\* included), and every record of the table expands to the same number of
\* points, floor(max z) + 1: the slices 0..floor(max z) of that record.
C17_ExpansionNeverRejects ==
    (/\ LayerDone /\ from_csv_path(csv_path) # "None"
     /\ csv_rows # << >>
     /\ IF from_csv_path(csv_path) = "pass" THEN AllPassRowsParse ELSE AllFailRowsParse) =>
        /\ layer.status = "ok"
        /\ Len(layer.value.data) = Len(csv_rows) * PerRow
        /\ \A i \in 1..Len(csv_rows) : \A k \in Block(i) :
              /\ layer.value.data[k][1] = RowTrace(i)
              /\ layer.value.data[k][3] = FromInt(k - ((i - 1) * PerRow) - 1)

\* a pass table whose first row has the smallest z and whose last row the
\* largest was expanded, the first row to as many points as the last
C17_Witness ==
    /\ PassLayer
    /\ Len(csv_rows) >= 2
    /\ RowCenter(1) = 0 /\ RowCenter(Len(csv_rows)) = 3
    /\ PerRow = 4
    /\ layer.value.data[PerRow][3] = FromInt(3)
    /\ layer.value.data[PerRow][1] = RowTrace(1)

\* C18: in every points layer built, symbol has one entry per point, size has
\* too in a pass layer and properties.failCodes in a fail layer, and entry k of
\* each list describes point k: the symbol and the size tell whether point k is
\* the center of its row, and the fail code is that of the row of point k.
C18_ListsMatchPoints ==
    (LayerDone /\ layer.status = "ok") =>
        /\ Len(layer.value.params.symbol) = Len(layer.value.data)
        /\ PassLayer => Len(layer.value.params.size) = Len(layer.value.data)
        /\ FailLayer =>
              Len(layer.value.params.properties.failCodes) = Len(layer.value.data)
        /\ \A k \in 1..Len(layer.value.data) :
              /\ layer.value.data[k][1] = RowTrace(RowOf(k))
              /\ (layer.value.params.symbol[k] = "*") <=> IsCenter(k)
              /\ PassLayer => ((layer.value.params.size[k] = SizeCenter) <=> IsCenter(k))
              /\ FailLayer =>
                    layer.value.params.properties.failCodes[k] = csv_rows[RowOf(k)][6]

\* a fail layer of three rows, each expanded to several points, whose last
\* point is the center of the last row and carries its code
C18_Witness ==
    /\ FailLayer
    /\ Len(csv_rows) = 3 /\ PerRow >= 3
    /\ Len(layer.value.params.properties.failCodes) = 3 * PerRow
    /\ layer.value.params.symbol[3 * PerRow] = "*"
    /\ csv_rows[1][6] # csv_rows[3][6]
    /\ layer.value.params.properties.failCodes[3 * PerRow] = csv_rows[3][6]

\* the first line of the table contains the column name timeIndex
FirstLineHasTimeIndex ==
    /\ csv_rows # << >>
    /\ \E j \in 1..Len(csv_rows[1]) : csv_rows[1][j] = TimeIndexChars

\* the rows in `lines` all parse as rows of the status of the file
AllParse(lines) ==
    \A i \in 1..Len(lines) :
        IF from_csv_path(csv_path) = "pass"
        THEN reader_parse_passed_row(lines[i]).status = "ok"
        ELSE reader_parse_failed_row(lines[i]).status = "ok"

\* the number of points of a table whose data rows are `lines`
PointsOf(lines) ==
    Len(lines) * (floor(Max({ float(lines[i][3]).value : i \in 1..Len(lines) })) + 1)

\* C14: the parser variant is chosen by the first line of the table: when it
\* contains "timeIndex" the headed variant parses the table, so the first line
\* names the columns and the lines after it are the data; otherwise the
\* headerless variant does, and every line is data.
C14_VariantBySniffing ==
    (LayerDone /\ from_csv_path(csv_path) # "None") =>
        IF FirstLineHasTimeIndex
        THEN (Len(csv_rows) >= 2 /\ AllParse(Tail(csv_rows))) =>
                /\ layer.status = "ok"
                /\ Len(layer.value.data) = PointsOf(Tail(csv_rows))
        ELSE (csv_rows # << >> /\ AllParse(csv_rows)) =>
                /\ layer.status = "ok"
                /\ Len(layer.value.data) = PointsOf(csv_rows)

-----------------------------------------------------------------------------
(* Specification of parsing one table: reader.parse_passed and parse_failed, *)
(* and parse_all_qcpass and parse_all_qcfail of the two parsers              *)

\* rows of pandas.read_csv(...).iterrows() of one file: every row has the
\* columns of the header, and the cells of a column have one type
NamedRow(z) ==
    [traceIndex |-> IntCell(0), timeIndex |-> IntCell(1), z |-> z,
     y |-> FloatCell(FromInt(1) + (Scale \div 4)), x |-> FloatCell(FromInt(7))]

WithCode(m, q) ==
    [c \in DOMAIN m \cup {"failCode"} |-> IF c = "failCode" THEN q ELSE m[c]]

\* a column z of floats, and one that pandas read as text
ZColumns ==
    { { FloatCell(FromInt(2) + (Scale \div 2)), FloatCell(FromInt(3)) },
      { StrCell(<<"2", ".", "5">>), StrCell(<<"z">>) } }

\* no column failCode, one of text, and one that pandas read as numbers
CodeColumns ==
    { {}, { StrCell(<<"R">>), StrCell(<<"R", ";", "S">>) }, { IntCell(3) } }

PandasRowsOf(zs, codes) ==
    IF codes = {} THEN { NamedRow(z) : z \in zs }
    ELSE { WithCode(NamedRow(z), q) : z \in zs, q \in codes }

PandasTablesOf(n) ==
    UNION { [1..k -> PandasRowsOf(zs, codes)] :
              k \in 0..n, zs \in ZColumns, codes \in CodeColumns }

InitTable ==
    /\ mode = "table"
    /\ pc = "start"
    /\ parser \in {"reader", "headless", "headed"}
    /\ context \in {"pass", "fail"}
    /\ csv_rows \in (IF parser = "headed" THEN PandasTablesOf(MaxRows)
                     ELSE TablesOf(MaxRows))
    /\ parsed = NoValue
    /\ log = << >>
    /\ input_row = NoValue /\ csv_path = NoValue /\ layer = NoValue
    /\ IdleExpand /\ IdleReader

\* the table through reader.parse_passed / reader.parse_failed
ReaderParseTable ==
    /\ mode = "table" /\ pc = "start" /\ parser = "reader"
    /\ LET read == IF context = "pass" THEN parse_passed(csv_rows)
                   ELSE parse_failed(csv_rows)
       IN  /\ parsed' = [status |-> read.status, why |-> read.why, value |-> read.value]
           /\ log' = log \o read.log
    /\ pc' = "done"
    /\ UNCHANGED <<mode, parser, context, input_row, csv_path, csv_rows, layer,
                   expandVars, readerVars>>

\* the table through HeadlessTraceTimePointParser.parse_all_qcpass / _qcfail
HeadlessParseAll ==
    /\ mode = "table" /\ pc = "start" /\ parser = "headless"
    /\ parsed' = IF context = "pass" THEN headless_parse_all_qcpass(csv_rows)
                 ELSE headless_parse_all_qcfail(csv_rows)
    /\ pc' = "done"
    /\ UNCHANGED <<mode, parser, context, input_row, csv_path, csv_rows, layer, log,
                   expandVars, readerVars>>

\* the table through HeadedTraceTimePointParser.parse_all_qcpass / _qcfail
HeadedParseAll ==
    /\ mode = "table" /\ pc = "start" /\ parser = "headed"
    /\ parsed' = IF context = "pass" THEN headed_parse_all_qcpass(csv_rows)
                 ELSE headed_parse_all_qcfail(csv_rows)
    /\ pc' = "done"
    /\ UNCHANGED <<mode, parser, context, input_row, csv_path, csv_rows, layer, log,
                   expandVars, readerVars>>

NextTable == ReaderParseTable \/ HeadlessParseAll \/ HeadedParseAll

SpecTable == InitTable /\ [][NextTable]_vars

TableDone == mode = "table" /\ pc = "done"

\* a headerless row with the wrong number of fields for its context, or with
\* a field that does not convert to its type
MalformedCsvRow(rw) ==
    \/ Len(rw) # ExpectedLength
    \/ ~ WellFormedCsvRow(SubSeq(rw, 1, 5))

\* a headed row that lacks a column of its context, or with a cell that does
\* not convert to its type
MalformedPandasRow(m) ==
    \/ int_of(m["traceIndex"]).status # "ok" \/ int_of(m["timeIndex"]).status # "ok"
    \/ \E c \in {"z", "y", "x"} : float_of(m[c]).status # "ok"
    \/ context = "fail" /\ "failCode" \notin DOMAIN m
    \/ context = "fail" /\ "failCode" \in DOMAIN m /\ m["failCode"].type # "str"

Malformed(i) ==
    IF parser = "headed" THEN MalformedPandasRow(csv_rows[i])
    ELSE MalformedCsvRow(csv_rows[i])

FirstMalformed == Min({ i \in 1..Len(csv_rows) : Malformed(i) })

-----------------------------------------------------------------------------
(* Specification of get_reader and of a call of the reader it returns *)

\* listings of a folder: up to MaxFiles different files, in any order
Folders ==
    { f \in UNION { [1..n -> FovFiles \cup {OtherFile}] : n \in 0..MaxFiles } :
        \A i, j \in 1..Len(f) : i # j => f[i] # f[j] }

\* arguments of get_reader: a list of paths, a path that is no folder, a folder
PathArgs ==
    { [kind |-> k, entries |-> << >>] : k \in {"list", "file"} }
    \cup { [kind |-> "dir", entries |-> f] : f \in Folders }

\* what the two tables hold when the reader is called
TablesRead ==
    LET PassRow(z) == << <<"0">>, <<"1">>, z, <<"1", ".", "2", "5">>, <<"7">> >>
        FailRow(z, q) == PassRow(z) \o <<q>>
    IN  { << >>,
          << PassRow(<<"2", ".", "5">>) >>,
          << FailRow(<<"2", ".", "5">>, <<"R">>) >>,
          << FailRow(<<"0">>, <<"R">>), FailRow(<<"3">>, <<"R", ";", "S">>) >> }

InitReader ==
    /\ mode = "reader"
    /\ pc = "start"
    /\ path \in PathArgs
    /\ reader = NoValue
    /\ tables = NoValue
    /\ layers = NoValue
    /\ log = << >>
    /\ IdleExpand /\ IdleRecord /\ IdleLayer

GetReader ==
    /\ mode = "reader" /\ pc = "start"
    /\ LET got == get_reader(path)
       IN  /\ reader' = [status |-> got.status, zarr |-> got.zarr,
                         fail_path |-> got.fail_path, pass_path |-> got.pass_path]
           /\ log' = log \o got.log
    /\ pc' = "returned"
    /\ UNCHANGED <<mode, path, tables, layers, expandVars, recordVars, layerVars>>

\* the host calls the reader that get_reader returned
Parse ==
    /\ mode = "reader" /\ pc = "returned"
    /\ reader.status = "Reader"
    /\ \E fail_rows \in TablesRead, pass_rows \in TablesRead :
         /\ tables' = [fail |-> fail_rows, pass |-> pass_rows]
         /\ LET got == parse(reader, fail_rows, pass_rows)
            IN  /\ layers' = [status |-> got.status, why |-> got.why, value |-> got.value]
                /\ log' = log \o got.log
    /\ pc' = "done"
    /\ UNCHANGED <<mode, path, reader, expandVars, recordVars, layerVars>>

NextReader == GetReader \/ Parse

Spec == InitReader /\ [][NextReader]_vars

ReaderReturned == mode = "reader" /\ pc \in {"returned", "done"}
ParseDone == mode = "reader" /\ pc = "done"

\* the entries of the folder whose names end with one of the three
\* extensions and give a field of view
Ours ==
    { f \in { path.entries[i] : i \in 1..Len(path.entries) } :
        f.fov # 0 /\ f.ext \in {".zarr", ".qcpass.csv", ".qcfail.csv"} }
OursWith(e) == { f \in Ours : f.ext = e }

\* one key, three files under it: one pass table, one fail table, one volume
IsTriple ==
    /\ path.kind = "dir"
    /\ Cardinality({ f.fov : f \in Ours }) = 1
    /\ Cardinality(Ours) = 3
    /\ Cardinality(OursWith(".qcpass.csv")) = 1
    /\ Cardinality(OursWith(".qcfail.csv")) = 1
    /\ Cardinality(OursWith(".zarr")) = 1

\* C3: get_reader returns a reader only when the folder yields exactly one
\* key and exactly three files under it, exactly one a QC-pass table, exactly
\* one a QC-fail table, the remaining one the .zarr of the same key; and the
\* reader is bound to exactly those three paths.
C3_ReaderOnlyForTriple ==
    (ReaderReturned /\ reader.status = "Reader") =>
        /\ IsTriple
        /\ OursWith(".qcpass.csv") = {reader.pass_path}
        /\ OursWith(".qcfail.csv") = {reader.fail_path}
        /\ OursWith(".zarr") = {reader.zarr}
        /\ { f.fov : f \in Ours } = {reader.zarr.fov}

\* a reader was returned for a folder that also holds a file of no interest
C3_Witness ==
    /\ ReaderReturned /\ reader.status = "Reader"
    /\ Len(path.entries) = 4
    /\ reader.pass_path.variant # reader.fail_path.variant

\* C4: for every input that is not a path, not a folder, or a folder that is
\* not one key with its pass table, fail table and volume, get_reader returns
\* None and raises nothing.
C4_NotOursIsNone ==
    (ReaderReturned /\ ~IsTriple) => reader.status = "None"

\* a folder with files of two fields of view was skipped
C4_Witness ==
    /\ ReaderReturned /\ path.kind = "dir"
    /\ Cardinality({ f.fov : f \in Ours }) = 2
    /\ reader.status = "None"
    /\ log # << >>

\* C5: when two of the three files under the single key match the same
\* QC-status suffix, get_reader raises instead of returning None.
C5_DuplicateStatusRaises ==
    (/\ ReaderReturned /\ path.kind = "dir"
     /\ Cardinality({ f.fov : f \in Ours }) = 1
     /\ Cardinality(Ours) = 3
     /\ \/ Cardinality(OursWith(".qcpass.csv")) >= 2
        \/ Cardinality(OursWith(".qcfail.csv")) >= 2) =>
        reader.status = "RuntimeError"

\* C6: a call of the reader that returns yields exactly three layers, in the
\* order image (of the volume), fail points (built from the fail table),
\* pass points (built from the pass table), tagged "image", "points", "points".
C6_LayerOrder ==
    (ParseDone /\ layers.status = "ok") =>
        /\ Len(layers.value) = 3
        /\ layers.value[1].type = "image"
        /\ layers.value[1].data = read_zarr(reader.zarr)
        /\ layers.value[2].type = "points"
        /\ layers.value[2].params.edge_color = DEEP_SKY_BLUE
        /\ layers.value[2] =
             build_single_file_points_layer(reader.fail_path, tables.fail).value
        /\ layers.value[3].type = "points"
        /\ layers.value[3].params.edge_color = GOLDENROD
        /\ layers.value[3] =
             build_single_file_points_layer(reader.pass_path, tables.pass).value

\* the reader returned layers for a fail table of two rows and a pass table of one
C6_Witness ==
    /\ ParseDone /\ layers.status = "ok"
    /\ Len(tables.fail) = 2 /\ Len(tables.pass) = 1
    /\ Len(layers.value[2].data) > Len(layers.value[3].data)

\* C19: for every three different files under one key neither RuntimeError
\* branch of get_reader is reached: the status-to-path mapping holds nothing
\* but the fail and the pass entry, and when it holds both exactly one file
\* remains beside the two paths; so get_reader raises RuntimeError for no
\* content of a directory.
C19_NoRuntimeError ==
    ReaderReturned =>
        /\ reader.status \in {"None", "Reader"}
        /\ (/\ path.kind = "dir"
            /\ Cardinality({ f.fov : f \in Ours }) = 1
            /\ Cardinality(Ours) = 3
            /\ OursWith(".qcpass.csv") # {} /\ OursWith(".qcfail.csv") # {}) =>
              \/ /\ reader.status = "Reader"
                 /\ Cardinality(Ours \ {reader.fail_path, reader.pass_path}) = 1
              \/ /\ reader.status = "None"
                 /\ log # << >>
                 /\ log[Len(log)].event = "Could not find ZARR for FOV"

\* three files under one key, two of them fail tables and one a pass table:
\* get_reader returned None
C19_Witness ==
    /\ ReaderReturned /\ path.kind = "dir"
    /\ Cardinality({ f.fov : f \in Ours }) = 1
    /\ Cardinality(Ours) = 3
    /\ Cardinality(OursWith(".qcfail.csv")) = 2
    /\ Cardinality(OursWith(".qcpass.csv")) = 1
    /\ reader.status = "None"
    /\ log[Len(log)].event = "Could not find ZARR for FOV"

====
